---- MODULE Spec2Model ----
(***************************************************************************)
(* Model of the M-Pesa payment reconciliation core: MpesaService (the      *)
(* circuit breaker, initiateStkPush, saveTransaction, handleCallback) and  *)
(* the MpesaUtils helpers it calls.  Each await of an async method is a    *)
(* suspension point: an action is the code that runs between two awaits.   *)
(***************************************************************************)
EXTENDS Integers, Sequences, FiniteSets, Bags

(***************************************************************************)
(* Bounds of the model.                                                    *)
(***************************************************************************)
\* concurrent initiateStkPush invocations
MaxInFlight == 2
\* clock ticks of resetTimeout / 2 each
MaxTicks == 4
\* the failures counter is followed up to this value
MaxRecorded == 8
\* concurrent handleCallback invocations
MaxCallbacks == 1

(***************************************************************************)
(* Program constants (MpesaService fields).                                *)
(***************************************************************************)
maxFailures == 5
resetTimeout == 60000

TickMs == resetTimeout \div 2

\* an unset optional Date (lastFailureTime?, nextAttemptTime?)
NoTime == -1
NoRecord == [status |-> "NONE"]

(***************************************************************************)
(* JavaScript values.  A string is a sequence of one-character strings, so *)
(* that trim, slice and parseInt are computed; a value carries its type.   *)
(***************************************************************************)
Val(t, n, s) == [t |-> t, n |-> n, s |-> s]
Undefined == Val("undefined", 0, <<>>)
\* a nullable column that holds no value
Null == Val("null", 0, <<>>)
NaN == Val("NaN", 0, <<>>)
Num(n) == Val("number", n, <<>>)
Str(s) == Val("string", 0, s)
\* new Date(): the clock of the model, milliseconds since the service started
ClockDate(t) == Val("Date", t, <<"c", "l", "o", "c", "k">>)
\* a Date parsed from a callback, as seconds since the Unix epoch
EpochDate(sec) == Val("Date", sec, <<"e", "p", "o", "c", "h">>)
\* a Date whose time value is NaN: new Date(Infinity)
InvalidDate == Val("Date", 0, <<"i", "n", "v", "a", "l", "i", "d">>)
\* Infinity (sign 1) and -Infinity (sign -1)
Infinity(sign) == Val("Infinity", sign, <<>>)

(***************************************************************************)
(* MpesaUtils.formatPhoneNumber: a phone number is a sequence of           *)
(* one-character strings.                                                  *)
(***************************************************************************)
Digits == {"0", "1", "2", "3", "4", "5", "6", "7", "8", "9"}

IsDigit(ch) == ch \in Digits

\* phoneNumber.replace(/\D/g, '')
cleaned(phoneNumber) == SelectSeq(phoneNumber, IsDigit)

startsWith(s, prefix) ==
    /\ Len(s) >= Len(prefix)
    /\ SubSeq(s, 1, Len(prefix)) = prefix

\* a formatter that keeps the leading 0 of the national form
formatPhoneNumber_KeepsZero(phoneNumber) ==
    LET c == cleaned(phoneNumber) IN
    IF startsWith(c, <<"0">>) /\ Len(c) = 10
        THEN <<"2", "5", "4">> \o c
    ELSE IF startsWith(c, <<"2", "5", "4">>) /\ Len(c) = 12
        THEN c
    ELSE IF Len(c) = 9
        THEN <<"2", "5", "4">> \o c
    ELSE <<>>

\* the value returned, or <<>> when the function throws
formatPhoneNumber(phoneNumber) ==
    LET c == cleaned(phoneNumber) IN
    IF startsWith(c, <<"0">>) /\ Len(c) = 10
        THEN <<"2", "5", "4">> \o SubSeq(c, 2, Len(c))
    ELSE IF startsWith(c, <<"2", "5", "4">>) /\ Len(c) = 12
        THEN c
    ELSE IF startsWith(c, <<"+", "2", "5", "4">>)
        THEN SubSeq(c, 2, Len(c))
    ELSE IF Len(c) = 9
        THEN <<"2", "5", "4">> \o c
    ELSE <<>>

formatPhoneNumberThrows(phoneNumber) == formatPhoneNumber(phoneNumber) = <<>>

(***************************************************************************)
(* String and number conversions of the language, as MpesaUtils uses them. *)
(***************************************************************************)
Whitespace == {" ", "\t", "\n"}

RECURSIVE trimStart(_)
trimStart(s) ==
    IF s # <<>> /\ Head(s) \in Whitespace THEN trimStart(Tail(s)) ELSE s

RECURSIVE trimEnd(_)
trimEnd(s) ==
    IF s # <<>> /\ s[Len(s)] \in Whitespace
        THEN trimEnd(SubSeq(s, 1, Len(s) - 1))
        ELSE s

\* String.prototype.trim
trim(s) == trimEnd(trimStart(s))

\* String.prototype.slice(from, to), for 0 <= from <= to <= length
slice(s, from, to) == SubSeq(s, from + 1, to)

DigitSeq == <<"0", "1", "2", "3", "4", "5", "6", "7", "8", "9">>

DigitValue(ch) == (CHOOSE i \in 1..Len(DigitSeq) : DigitSeq[i] = ch) - 1

AllDigits(s) == \A i \in 1..Len(s) : IsDigit(s[i])

RECURSIVE DecimalValue(_)
DecimalValue(s) ==
    IF s = <<>> THEN 0
    ELSE DecimalValue(SubSeq(s, 1, Len(s) - 1)) * 10 + DigitValue(s[Len(s)])

RECURSIVE DecimalDigits(_)
DecimalDigits(n) ==
    IF n < 10 THEN <<DigitSeq[n + 1]>>
    ELSE DecimalDigits(n \div 10) \o <<DigitSeq[(n % 10) + 1]>>

\* String(value)
StringOf(v) ==
    CASE v.t = "string" -> v.s
      [] v.t = "number" -> IF v.n < 0 THEN <<"-">> \o DecimalDigits(0 - v.n)
                                      ELSE DecimalDigits(v.n)
      [] v.t = "NaN" -> <<"N", "a", "N">>
      [] v.t = "null" -> <<"n", "u", "l", "l">>
      [] OTHER -> <<"u", "n", "d", "e", "f", "i", "n", "e", "d">>

RECURSIVE Pow10(_)
Pow10(n) == IF n = 0 THEN 1 ELSE 10 * Pow10(n - 1)

\* the position of the exponent indicator of a numeric literal, 0 without one
ExponentAt(s) ==
    LET at == {i \in 1..Len(s) : s[i] \in {"e", "E"}}
    IN  IF at = {} THEN 0 ELSE CHOOSE i \in at : \A j \in at : i <= j

\* Number(value), for integer literals: an optional sign, decimal digits and
\* an optional unsigned exponent; a literal beyond the largest finite number
\* is Infinity (fractions and radix prefixes are outside the modelled inputs)
NumberOf(v) ==
    CASE v.t = "number" -> v
      [] v.t = "null" -> Num(0)
      [] v.t = "string" ->
            LET c == trim(v.s)
                signed == c # <<>> /\ Head(c) \in {"+", "-"}
                sign == IF signed /\ Head(c) = "-" THEN 0 - 1 ELSE 1
                body == IF signed THEN Tail(c) ELSE c
                e == ExponentAt(body)
                mantissa == SubSeq(body, 1, e - 1)
                exponent == SubSeq(body, e + 1, Len(body))
            IN  IF c = <<>> THEN Num(0)
                ELSE IF body # <<>> /\ AllDigits(body)
                    THEN Num(sign * DecimalValue(body))
                ELSE IF /\ e > 0
                        /\ mantissa # <<>> /\ AllDigits(mantissa)
                        /\ exponent # <<>> /\ AllDigits(exponent)
                    THEN IF DecimalValue(mantissa) = 0 THEN Num(0)
                         \* beyond the largest finite number, about 1.8e308
                         ELSE IF DecimalValue(exponent) > 308
                             THEN Infinity(sign)
                         ELSE Num(sign * DecimalValue(mantissa)
                                       * Pow10(DecimalValue(exponent)))
                ELSE NaN
      [] OTHER -> NaN

RECURSIVE LeadingDigits(_)
LeadingDigits(s) ==
    IF s # <<>> /\ IsDigit(Head(s)) THEN <<Head(s)>> \o LeadingDigits(Tail(s)) ELSE <<>>

\* parseInt(string) without a radix, for decimal text: leading whitespace, an
\* optional sign, then the longest run of digits; NaN when there is none
parseInt(s) ==
    LET c == trimStart(s)
        signed == c # <<>> /\ Head(c) \in {"+", "-"}
        digits == LeadingDigits(IF signed THEN Tail(c) ELSE c)
    IN  IF digits = <<>> THEN NaN
        ELSE Num(IF signed /\ Head(c) = "-"
                    THEN 0 - DecimalValue(digits) ELSE DecimalValue(digits))

\* a < k and a > k of the language: FALSE whenever a is NaN
Less(a, k) == a.t = "number" /\ a.n < k
Greater(a, k) == a.t = "number" /\ a.n > k

\* if (value): the truthiness of a value
Truthy(v) ==
    CASE v.t = "string" -> v.s # <<>>
      [] v.t = "number" -> v.n # 0
      [] v.t = "Date" -> TRUE
      [] OTHER -> FALSE

(***************************************************************************)
(* MpesaUtils.parseTransactionDate.                                        *)
(***************************************************************************)
\* days from 1970-01-01 to the civil date; a day past the end of the month
\* runs into the next month, as Date does
DaysFromCivil(y, m, d) ==
    LET yy == IF m <= 2 THEN y - 1 ELSE y
        era == yy \div 400
        yoe == yy - era * 400
        mp == IF m > 2 THEN m - 3 ELSE m + 9
        doy == (153 * mp + 2) \div 5 + d - 1
        doe == yoe * 365 + yoe \div 4 - yoe \div 100 + doy
    IN  era * 146097 + doe - 719468

\* new Date(`${year}-${month}-${day}T${hour}:${minute}:${second}+03:00`)
EatInstant(y, m, d, h, mi, sec) ==
    DaysFromCivil(y, m, d) * 86400 + h * 3600 + mi * 60 + sec - 3 * 3600

\* t is Date.now(), the fallback
parseTransactionDate(dateStr, t) ==
    LET c == trim(dateStr)
        yearNum == parseInt(slice(c, 0, 4))
        monthNum == parseInt(slice(c, 4, 6))
        dayNum == parseInt(slice(c, 6, 8))
        hourNum == parseInt(slice(c, 8, 10))
        minuteNum == parseInt(slice(c, 10, 12))
        secondNum == parseInt(slice(c, 12, 14))
        invalidComponents ==
            \/ Less(yearNum, 2020) \/ Greater(yearNum, 2030)
            \/ Less(monthNum, 1) \/ Greater(monthNum, 12)
            \/ Less(dayNum, 1) \/ Greater(dayNum, 31)
            \/ Less(hourNum, 0) \/ Greater(hourNum, 23)
            \/ Less(minuteNum, 0) \/ Greater(minuteNum, 59)
            \/ Less(secondNum, 0) \/ Greater(secondNum, 59)
        timestamp == NumberOf(Str(c))
    IN  IF dateStr = <<>> THEN ClockDate(t)
        ELSE IF Len(c) = 14 THEN
            IF invalidComponents THEN ClockDate(t)
            \* the ISO string of text that is not all digits is an Invalid Date
            ELSE IF ~AllDigits(c) THEN ClockDate(t)
            ELSE EpochDate(EatInstant(yearNum.n, monthNum.n, dayNum.n,
                                      hourNum.n, minuteNum.n, secondNum.n))
        ELSE IF Len(c) = 10 THEN
            IF timestamp.t = "NaN" THEN ClockDate(t)
            \* isNaN(Infinity) is false, and new Date(Infinity) is an Invalid Date
            ELSE IF timestamp.t = "Infinity" THEN InvalidDate
            ELSE EpochDate(timestamp.n)
        ELSE ClockDate(t)

(***************************************************************************)
(* MpesaUtils.parseCallbackMetadata: the metadata object is a function     *)
(* from the names it holds to their values.                                *)
(***************************************************************************)
AmountName == <<"A", "m", "o", "u", "n", "t">>
ReceiptName ==
    <<"M", "p", "e", "s", "a", "R", "e", "c", "e", "i", "p", "t",
      "N", "u", "m", "b", "e", "r">>
BalanceName == <<"B", "a", "l", "a", "n", "c", "e">>
DateName ==
    <<"T", "r", "a", "n", "s", "a", "c", "t", "i", "o", "n", "D", "a", "t", "e">>
PhoneName == <<"P", "h", "o", "n", "e", "N", "u", "m", "b", "e", "r">>

EmptyObject == <<>>

Put(m, k, v) == [x \in (DOMAIN m) \cup {k} |-> IF x = k THEN v ELSE m[x]]

Get(m, k) == IF k \in DOMAIN m THEN m[k] ELSE Undefined

CallbackItem(name, value) == [Name |-> name, Value |-> value]

\* a forEach that gives up its earlier entries at an item without a Name
parseItem_Aborts(metadata, item, t) ==
    LET name == trim(StringOf(item.Name))
        value == item.Value
    IN  IF ~Truthy(item.Name) THEN EmptyObject
        ELSE IF name = AmountName THEN Put(metadata, name, NumberOf(value))
        ELSE IF name = ReceiptName THEN Put(metadata, name, Str(trim(StringOf(value))))
        ELSE IF name = BalanceName THEN Put(metadata, name, NumberOf(value))
        ELSE IF name = DateName
            THEN Put(metadata, name, parseTransactionDate(trim(StringOf(value)), t))
        ELSE IF name = PhoneName THEN Put(metadata, name, Str(trim(StringOf(value))))
        ELSE Put(metadata, name, value)

\* one turn of the forEach: the metadata after the item
parseItem(metadata, item, t) ==
    LET name == trim(StringOf(item.Name))
        value == item.Value
    IN  IF ~Truthy(item.Name) THEN metadata
        ELSE IF name = AmountName THEN Put(metadata, name, NumberOf(value))
        ELSE IF name = ReceiptName THEN Put(metadata, name, Str(trim(StringOf(value))))
        ELSE IF name = BalanceName THEN Put(metadata, name, NumberOf(value))
        ELSE IF name = DateName
            THEN Put(metadata, name, parseTransactionDate(trim(StringOf(value)), t))
        ELSE IF name = PhoneName THEN Put(metadata, name, Str(trim(StringOf(value))))
        ELSE Put(metadata, name, value)

RECURSIVE parseItems(_, _, _)
parseItems(metadata, items, t) ==
    IF items = <<>> THEN metadata
    ELSE parseItems(parseItem(metadata, Head(items), t), Tail(items), t)

parseCallbackMetadata(items, t) == parseItems(EmptyObject, items, t)

(***************************************************************************)
(* Inputs of initiateStkPush and answers of the gateway.                   *)
(***************************************************************************)
ValidPhone == <<"0", "7", "1", "2", "3", "4", "5", "6", "7", "8">>
InvalidPhone == <<"1", "2", "3", "4", "5">>
ServicePhones == {ValidPhone, InvalidPhone}

StkPushDtos ==
    [amount : {100}, phoneNumber : ServicePhones,
     accountReference : {"ORDER123"}, transactionDesc : {""}]

CheckoutIds == {"ws_CO_1", "ws_CO_2"}

MerchantIdOf(c) == IF c = "ws_CO_1" THEN "mr_1" ELSE "mr_2"

\* the body of the gateway's answer to the payment submission
StkPushAnswers ==
    [ResponseCode : {"0"}, CheckoutRequestID : CheckoutIds,
     ResponseDescription : {"Success. Request accepted for processing"}]
    \cup
    [ResponseCode : {"1"}, CheckoutRequestID : {""},
     ResponseDescription : {"Invalid Amount", ""}]

NoAnswer == [ResponseCode |-> "", CheckoutRequestID |-> "", ResponseDescription |-> ""]

\* what an invocation gave its caller: a returned value (status 200) or a
\* thrown HttpException(message, status)
Outcome(status, message) == [status |-> status, message |-> message]
NoOutcome == Outcome(0, "")
Returned == Outcome(200, "returned")

(***************************************************************************)
(* Inputs of handleCallback (MpesaCallbackDto).  shape tells whether Body   *)
(* and Body.stkCallback are there; CallbackMetadata may be absent, may lack *)
(* Item, or carries an Item array.                                         *)
(***************************************************************************)
NoMetadata == [present |-> FALSE, hasItem |-> FALSE, Item |-> <<>>]
MetadataWithoutItem == [present |-> TRUE, hasItem |-> FALSE, Item |-> <<>>]
MetadataItems(items) == [present |-> TRUE, hasItem |-> TRUE, Item |-> items]

SampleReceipt == Str(<<"N", "L", "J", "7">>)
SampleDate ==
    Str(<<"2", "0", "2", "5", "0", "6", "0", "1", "1", "2", "0", "0", "0", "0">>)
SampleItems ==
    <<CallbackItem(Str(AmountName), Num(1)),
      CallbackItem(Str(ReceiptName), SampleReceipt),
      CallbackItem(Str(DateName), SampleDate)>>

StkCallback(id, code, desc, metadata) ==
    [shape |-> "stkCallback", CheckoutRequestID |-> id, ResultCode |-> code,
     ResultDesc |-> desc, CallbackMetadata |-> metadata]

NoCallback == StkCallback("", 0, Str(<<>>), NoMetadata)

Accepted == Str(<<"o", "k">>)
Refused == Str(<<"n", "o">>)

CallbackDtos ==
    {[NoCallback EXCEPT !.shape = "noBody"],
     [NoCallback EXCEPT !.shape = "noStkCallback"]}
    \cup {StkCallback(id, 0, Accepted, MetadataItems(SampleItems)) : id \in CheckoutIds}
    \cup {StkCallback(id, 0, Accepted, NoMetadata) : id \in CheckoutIds}
    \cup {StkCallback(id, 0, Accepted, MetadataWithoutItem) : id \in CheckoutIds}
    \cup {StkCallback(id, 0, Str(<<>>), MetadataItems(<<>>)) : id \in CheckoutIds}
    \cup {StkCallback(id, 1032, Refused, NoMetadata) : id \in CheckoutIds}
    \cup {StkCallback(id, 1037, Refused, NoMetadata) : id \in CheckoutIds}
    \cup {StkCallback(id, 1, Str(<<>>), NoMetadata) : id \in CheckoutIds}

VARIABLES circuitBreaker, now, stk, ledger, cb, reply, opened, retry, call

\* the state of MpesaService, its callers and its ledger
serviceVars == <<circuitBreaker, now, stk, ledger, cb, reply, opened>>

vars == <<circuitBreaker, now, stk, ledger, cb, reply, opened, retry, call>>

(***************************************************************************)
(* The circuit breaker.                                                    *)
(***************************************************************************)
\* recordSuccess closing the breaker without clearing the counter
recordSuccess_KeepsCount(b) ==
    IF b.state = "HALF_OPEN" THEN [b EXCEPT !.state = "CLOSED"] ELSE b

\* recordSuccess clearing the counter in every state
recordSuccess_AlwaysResets(b) ==
    IF b.state = "HALF_OPEN" THEN [b EXCEPT !.state = "CLOSED", !.failures = 0]
    ELSE [b EXCEPT !.failures = 0]

\* recordSuccess that leaves the breaker as it is
recordSuccess_Ignores(b) == b

recordSuccess(b) ==
    IF b.state = "HALF_OPEN"
        THEN [b EXCEPT !.state = "CLOSED", !.failures = 0]
        ELSE b

\* recordFailure opening the breaker only above maxFailures
recordFailure_Above(b, t) ==
    LET counted == [b EXCEPT !.failures = b.failures + 1, !.lastFailureTime = t] IN
    IF counted.failures > maxFailures
        THEN [counted EXCEPT !.state = "OPEN", !.nextAttemptTime = t + resetTimeout]
        ELSE counted

\* recordFailure that sets nextAttemptTime only when it opens a CLOSED breaker
recordFailure_NoRefresh(b, t) ==
    LET counted == [b EXCEPT !.failures = b.failures + 1, !.lastFailureTime = t] IN
    IF counted.failures >= maxFailures
        THEN [counted EXCEPT !.state = "OPEN",
                             !.nextAttemptTime =
                                 IF b.state = "CLOSED" THEN t + resetTimeout ELSE @]
        ELSE counted

\* recordFailure counting two failures of the same instant as one
recordFailure_Stale(b, t) ==
    LET counted == [b EXCEPT !.failures = IF b.lastFailureTime = t THEN @ ELSE @ + 1,
                             !.lastFailureTime = t] IN
    IF counted.failures >= maxFailures
        THEN [counted EXCEPT !.state = "OPEN", !.nextAttemptTime = t + resetTimeout]
        ELSE counted

recordFailure(b, t) ==
    LET counted == [b EXCEPT !.failures = b.failures + 1, !.lastFailureTime = t] IN
    IF counted.failures >= maxFailures
        THEN [counted EXCEPT !.state = "OPEN", !.nextAttemptTime = t + resetTimeout]
        ELSE counted

\* the breaker check with the comparison of the clock turned around
breakerRejects_Late(b, t) ==
    /\ b.state = "OPEN"
    /\ b.nextAttemptTime # NoTime
    /\ t >= b.nextAttemptTime

\* lines 83-92 of initiateStkPush: TRUE when the call is rejected
breakerRejects(b, t) ==
    /\ b.state = "OPEN"
    /\ b.nextAttemptTime # NoTime
    /\ t < b.nextAttemptTime

\* the breaker check without the move to HALF_OPEN
breakerAdmit_StaysOpen(b) == b

\* the breaker check clearing the counter when it admits the probe
breakerAdmit_ClearsCount(b) ==
    IF b.state = "OPEN" THEN [b EXCEPT !.state = "HALF_OPEN", !.failures = 0] ELSE b

breakerAdmit(b) ==
    IF b.state = "OPEN" THEN [b EXCEPT !.state = "HALF_OPEN"] ELSE b

(***************************************************************************)
(* The ledger (prisma.mpesaTransaction), keyed by checkoutRequestID.       *)
(***************************************************************************)
OrDefault(x, d) == IF x = "" THEN d ELSE x

newTransaction(dto, formattedPhone, answer) ==
    [merchantRequestID |-> MerchantIdOf(answer.CheckoutRequestID),
     checkoutRequestID |-> answer.CheckoutRequestID,
     responseCode |-> answer.ResponseCode,
     amount |-> dto.amount,
     phoneNumber |-> formattedPhone,
     accountReference |-> OrDefault(dto.accountReference, "Payment"),
     transactionDesc |-> OrDefault(dto.transactionDesc, "Payment for services"),
     status |-> "PENDING",
     mpesaReceiptNumber |-> Null,
     transactionDate |-> Null,
     resultCode |-> Null,
     resultDesc |-> Null]

\* prisma create: refused when a unique column (checkoutRequestID,
\* merchantRequestID) already holds the value
createRefused(l, record) == l[record.checkoutRequestID] # NoRecord

(***************************************************************************)
(* handleCallback, lines 251-319: the update it prepares.  A column the    *)
(* update does not name is Undefined, and prisma leaves it as it is.       *)
(* (updatedAt, which no reader of this model uses, is left out.)           *)
(***************************************************************************)
\* the outcome without the TIMEOUT branch
statusOf_NoTimeout(ResultCode) ==
    IF ResultCode = 0 THEN "SUCCESS"
    ELSE IF ResultCode = 1032 THEN "CANCELLED"
    ELSE "FAILED"

statusOf(ResultCode) ==
    IF ResultCode = 0 THEN "SUCCESS"
    ELSE IF ResultCode = 1032 THEN "CANCELLED"
    ELSE IF ResultCode = 1037 THEN "TIMEOUT"
    ELSE "FAILED"

\* a placeholder that does not carry the time
FallbackReceipt_Fixed(t) ==
    Str(<<"F", "A", "L", "L", "B", "A", "C", "K", "_", "0">>)

FallbackReceipt(t) ==
    Str(<<"F", "A", "L", "L", "B", "A", "C", "K", "_">> \o DecimalDigits(t))

updateDataOf(stkCallback, t) ==
    LET base ==
            [resultCode |-> Num(stkCallback.ResultCode),
             resultDesc |-> IF Truthy(stkCallback.ResultDesc)
                               THEN stkCallback.ResultDesc ELSE Null,
             status |-> statusOf(stkCallback.ResultCode),
             mpesaReceiptNumber |-> Undefined,
             transactionDate |-> Undefined]
        CallbackMetadata == stkCallback.CallbackMetadata
        metadata == parseCallbackMetadata(CallbackMetadata.Item, t)
    IN  IF stkCallback.ResultCode # 0 THEN base
        ELSE IF CallbackMetadata.present /\ CallbackMetadata.hasItem
            THEN [base EXCEPT
                    !.mpesaReceiptNumber =
                        IF Truthy(Get(metadata, ReceiptName))
                            THEN Get(metadata, ReceiptName) ELSE Undefined,
                    !.transactionDate =
                        IF Truthy(Get(metadata, DateName))
                            THEN Get(metadata, DateName) ELSE ClockDate(t)]
        ELSE [base EXCEPT !.mpesaReceiptNumber = FallbackReceipt(t),
                          !.transactionDate = ClockDate(t)]

NoUpdate ==
    [resultCode |-> Undefined, resultDesc |-> Undefined, status |-> "",
     mpesaReceiptNumber |-> Undefined, transactionDate |-> Undefined]

Column(old, new) == IF new = Undefined THEN old ELSE new

\* an update that writes the status of a PENDING row only
updated_PendingOnly(record, data) ==
    [record EXCEPT !.resultCode = Column(@, data.resultCode),
                   !.resultDesc = Column(@, data.resultDesc),
                   !.status = IF record.status = "PENDING" THEN data.status ELSE @,
                   !.mpesaReceiptNumber = Column(@, data.mpesaReceiptNumber),
                   !.transactionDate = Column(@, data.transactionDate)]

\* an update that puts a failed transaction back to PENDING
updated_Reopens(record, data) ==
    [record EXCEPT !.resultCode = Column(@, data.resultCode),
                   !.resultDesc = Column(@, data.resultDesc),
                   !.status = IF data.status = "FAILED" THEN "PENDING" ELSE data.status,
                   !.mpesaReceiptNumber = Column(@, data.mpesaReceiptNumber),
                   !.transactionDate = Column(@, data.transactionDate)]

\* prisma update of one row with data
updated(record, data) ==
    [record EXCEPT !.resultCode = Column(@, data.resultCode),
                   !.resultDesc = Column(@, data.resultDesc),
                   !.status = data.status,
                   !.mpesaReceiptNumber = Column(@, data.mpesaReceiptNumber),
                   !.transactionDate = Column(@, data.transactionDate)]

(***************************************************************************)
(* State.  stk and cb are the invocations of initiateStkPush and of        *)
(* handleCallback that are suspended at an await, as bags: an invocation   *)
(* is known by where it waits (pc) and by the locals it holds.  reply is   *)
(* what the last step gave a caller, when the step ended an invocation by  *)
(* a return or a throw (NoReply otherwise), whether that invocation was    *)
(* the one that moved the breaker from OPEN to HALF_OPEN, and the breaker  *)
(* state that the step found.  opened is the time at which the breaker     *)
(* went from CLOSED to OPEN, for as long as it has stayed OPEN since with  *)
(* nothing but rejected initiations recorded (NoTime otherwise).           *)
(***************************************************************************)
NewBreaker ==
    [state |-> "CLOSED", failures |-> 0, lastFailureTime |-> NoTime,
     nextAttemptTime |-> NoTime]

StkInvocation(pc, dto, answer, probe) ==
    [pc |-> pc, dto |-> dto, answer |-> answer, probe |-> probe]

CbInvocation(pc, dto, updateData) == [pc |-> pc, dto |-> dto, updateData |-> updateData]

Add(bag, e) == bag (+) SetToBag({e})
Remove(bag, e) == bag (-) SetToBag({e})
Replace(bag, e, f) == Add(Remove(bag, e), f)

NoReply == [outcome |-> NoOutcome, probe |-> FALSE, found |-> "", value |-> NoAnswer]

Reply(outcome, probe) ==
    [outcome |-> outcome, probe |-> probe, found |-> circuitBreaker.state,
     value |-> NoAnswer]

\* the return of initiateStkPush: the fields of the gateway's answer
Return(answer, probe) ==
    [outcome |-> Returned, probe |-> probe, found |-> circuitBreaker.state,
     value |-> answer]

\* opened after a step that took the breaker from b0 to b1 at time t
openedAfter(b0, b1, rejected, t) ==
    IF rejected THEN opened
    ELSE IF b0.state = "CLOSED" /\ b1.state = "OPEN" THEN t
    ELSE IF b1 = b0 THEN opened
    ELSE NoTime

\* no utility of MpesaUtils has been applied yet; afterwards the function
\* applied, its argument, the clock it read and what it gave
NoCall == [fn |-> "", input |-> <<>>, t |-> 0, result |-> <<>>]

\* retryOperation before it is called: its parameters, the loop variable
\* attempt, what each invocation of operation gave ("rejected" or the value it
\* resolved with), the delays slept, and what the call gave its caller
NoRetry ==
    [pc |-> "idle", maxRetries |-> 0, baseDelay |-> 0, attempt |-> 0,
     attempts |-> <<>>, delays |-> <<>>, outcome |-> NoOutcome, value |-> ""]

\* Init: the state after construction of the service, with an empty ledger
Init ==
    /\ circuitBreaker = NewBreaker
    /\ now = 0
    /\ stk = EmptyBag
    /\ ledger = [c \in CheckoutIds |-> NoRecord]
    /\ cb = EmptyBag
    /\ reply = NoReply
    /\ opened = NoTime
    /\ retry = NoRetry
    /\ call = NoCall

\* the failures counter is followed up to MaxRecorded
CanRecord(n) == circuitBreaker.failures + n <= MaxRecorded

(***************************************************************************)
(* initiateStkPush, from its entry to the await of axios.get in            *)
(* getAccessToken, or to the throw of the breaker check, which the         *)
(* method's own catch records as a failure before rethrowing it.           *)
(***************************************************************************)
initiateStkPush(dto) ==
    /\ IF breakerRejects(circuitBreaker, now)
          THEN /\ CanRecord(1)
               /\ circuitBreaker' = recordFailure(circuitBreaker, now)
               /\ reply' = Reply(Outcome(503, "M-Pesa service temporarily unavailable"),
                                 FALSE)
               /\ UNCHANGED stk
          ELSE /\ BagCardinality(stk) < MaxInFlight
               /\ circuitBreaker' = breakerAdmit(circuitBreaker)
               /\ stk' = Add(stk, StkInvocation("token", dto, NoAnswer,
                                                circuitBreaker.state = "OPEN"))
               /\ reply' = NoReply
    /\ opened' = openedAfter(circuitBreaker, circuitBreaker',
                              breakerRejects(circuitBreaker, now), now)
    /\ UNCHANGED <<now, ledger, cb, retry, call>>

(***************************************************************************)
(* getAccessToken fails (transport error, timeout, or no access_token in   *)
(* the answer): its catch records a failure and throws 503; the catch of   *)
(* initiateStkPush records a second failure and rethrows.                  *)
(***************************************************************************)
getAccessTokenFails(inv) ==
    /\ BagIn(inv, stk) /\ inv.pc = "token"
    /\ CanRecord(2)
    /\ circuitBreaker' = recordFailure(recordFailure(circuitBreaker, now), now)
    /\ stk' = Remove(stk, inv)
    /\ reply' = Reply(Outcome(503, "Failed to authenticate with M-Pesa API"), inv.probe)
    /\ opened' = openedAfter(circuitBreaker, circuitBreaker', FALSE, now)
    /\ UNCHANGED <<now, ledger, cb, retry, call>>

(***************************************************************************)
(* getAccessToken returns a token: the payload is built; an invalid phone  *)
(* number throws an Error, which the catch records and turns into a 500;   *)
(* otherwise axios.post is awaited.                                        *)
(***************************************************************************)
getAccessTokenReturns(inv) ==
    /\ BagIn(inv, stk) /\ inv.pc = "token"
    /\ IF formatPhoneNumberThrows(inv.dto.phoneNumber)
          THEN /\ CanRecord(1)
               /\ circuitBreaker' = recordFailure(circuitBreaker, now)
               /\ stk' = Remove(stk, inv)
               /\ reply' = Reply(Outcome(500, "Failed to initiate STK Push"), inv.probe)
          ELSE /\ stk' = Replace(stk, inv, [inv EXCEPT !.pc = "post"])
               /\ reply' = NoReply
               /\ UNCHANGED circuitBreaker
    /\ opened' = openedAfter(circuitBreaker, circuitBreaker', FALSE, now)
    /\ UNCHANGED <<now, ledger, cb, retry, call>>

\* axios.post rejects (transport error or the 30 s timeout)
\* a transport failure that has already written the PENDING row
stkPushFails_Records(inv) ==
    /\ BagIn(inv, stk) /\ inv.pc = "post"
    /\ CanRecord(1)
    /\ circuitBreaker' = recordFailure(circuitBreaker, now)
    /\ stk' = Remove(stk, inv)
    /\ reply' = Reply(Outcome(500, "Failed to initiate STK Push"), inv.probe)
    /\ opened' = openedAfter(circuitBreaker, circuitBreaker', FALSE, now)
    /\ ledger' = [ledger EXCEPT !["ws_CO_1"] =
                     newTransaction(inv.dto, formatPhoneNumber(inv.dto.phoneNumber),
                                    [NoAnswer EXCEPT !.CheckoutRequestID = "ws_CO_1"])]
    /\ UNCHANGED <<now, cb, retry, call>>

stkPushFails(inv) ==
    /\ BagIn(inv, stk) /\ inv.pc = "post"
    /\ CanRecord(1)
    /\ circuitBreaker' = recordFailure(circuitBreaker, now)
    /\ stk' = Remove(stk, inv)
    /\ reply' = Reply(Outcome(500, "Failed to initiate STK Push"), inv.probe)
    /\ opened' = openedAfter(circuitBreaker, circuitBreaker', FALSE, now)
    /\ UNCHANGED <<now, ledger, cb, retry, call>>

(***************************************************************************)
(* The gateway answers the payment submission: ResponseCode "0" records a  *)
(* success and awaits saveTransaction; any other code throws a 400, which  *)
(* the catch records as a failure.                                         *)
(***************************************************************************)
stkPushAnswered(inv, answer) ==
    /\ BagIn(inv, stk) /\ inv.pc = "post"
    /\ IF answer.ResponseCode = "0"
          THEN /\ circuitBreaker' = recordSuccess(circuitBreaker)
               /\ stk' = Replace(stk, inv, [inv EXCEPT !.pc = "save", !.answer = answer])
               /\ reply' = NoReply
          ELSE /\ CanRecord(1)
               /\ circuitBreaker' = recordFailure(circuitBreaker, now)
               /\ stk' = Remove(stk, inv)
               /\ reply' = Reply(Outcome(400, OrDefault(answer.ResponseDescription,
                                                        "STK Push failed")), inv.probe)
    /\ opened' = openedAfter(circuitBreaker, circuitBreaker', FALSE, now)
    /\ UNCHANGED <<now, ledger, cb, retry, call>>

(***************************************************************************)
(* saveTransaction: prisma create resolves or rejects; a rejection is      *)
(* logged and swallowed.  initiateStkPush then returns the answer.         *)
(***************************************************************************)
\* saveTransaction without the create
saveTransaction_NoWrite(inv, dbFault) ==
    /\ BagIn(inv, stk) /\ inv.pc = "save"
    /\ stk' = Remove(stk, inv)
    /\ reply' = Return(inv.answer, inv.probe)
    /\ UNCHANGED <<now, ledger, circuitBreaker, cb, opened, retry, call>>

\* saveTransaction letting the fault of the create reach the catch of
\* initiateStkPush
saveTransaction_Throws(inv, dbFault) ==
    /\ BagIn(inv, stk) /\ inv.pc = "save"
    /\ LET record == newTransaction(inv.dto, formatPhoneNumber(inv.dto.phoneNumber),
                                    inv.answer) IN
       IF dbFault \/ createRefused(ledger, record)
          THEN /\ CanRecord(1)
               /\ circuitBreaker' = recordFailure(circuitBreaker, now)
               /\ reply' = Reply(Outcome(500, "Failed to initiate STK Push"), inv.probe)
               /\ UNCHANGED ledger
          ELSE /\ ledger' = [ledger EXCEPT ![record.checkoutRequestID] = record]
               /\ reply' = Return(inv.answer, inv.probe)
               /\ UNCHANGED circuitBreaker
    /\ stk' = Remove(stk, inv)
    /\ opened' = openedAfter(circuitBreaker, circuitBreaker', FALSE, now)
    /\ UNCHANGED <<now, cb, retry, call>>

saveTransaction(inv, dbFault) ==
    /\ BagIn(inv, stk) /\ inv.pc = "save"
    /\ LET record == newTransaction(inv.dto, formatPhoneNumber(inv.dto.phoneNumber),
                                    inv.answer) IN
       IF dbFault \/ createRefused(ledger, record)
          THEN UNCHANGED ledger
          ELSE ledger' = [ledger EXCEPT ![record.checkoutRequestID] = record]
    /\ stk' = Remove(stk, inv)
    /\ reply' = Return(inv.answer, inv.probe)
    /\ UNCHANGED <<now, circuitBreaker, cb, opened, retry, call>>

\* wall-clock time passes
Tick ==
    /\ now + TickMs <= MaxTicks * TickMs
    /\ now' = now + TickMs
    /\ reply' = NoReply
    /\ UNCHANGED <<circuitBreaker, stk, ledger, cb, opened, retry, call>>

(***************************************************************************)
(* handleCallback, from its entry to the await of findUnique, or to the    *)
(* throw for a payload without Body or Body.stkCallback.                   *)
(***************************************************************************)
\* handleCallback answering a payload without envelope as processed
handleCallback_Accepts(dto) ==
    /\ IF dto.shape # "stkCallback"
          THEN /\ reply' = Reply(Returned, FALSE)
               /\ UNCHANGED cb
          ELSE /\ BagCardinality(cb) < MaxCallbacks
               /\ cb' = Add(cb, CbInvocation("find", dto, NoUpdate))
               /\ reply' = NoReply
    /\ UNCHANGED <<circuitBreaker, now, stk, ledger, opened, retry, call>>

handleCallback(dto) ==
    /\ IF dto.shape = "noBody"
          THEN /\ reply' = Reply(Outcome(400, "Invalid callback format: missing Body"),
                                 FALSE)
               /\ UNCHANGED cb
       ELSE IF dto.shape = "noStkCallback"
          THEN /\ reply' = Reply(Outcome(400,
                                 "Invalid callback format: missing stkCallback"), FALSE)
               /\ UNCHANGED cb
       ELSE /\ BagCardinality(cb) < MaxCallbacks
            /\ cb' = Add(cb, CbInvocation("find", dto, NoUpdate))
            /\ reply' = NoReply
    /\ UNCHANGED <<circuitBreaker, now, stk, ledger, opened, retry, call>>

\* findUnique without the check that a row was found
findUnique_NoCheck(inv, dbFault) ==
    /\ BagIn(inv, cb) /\ inv.pc = "find"
    /\ IF dbFault
          THEN /\ reply' = Reply(Outcome(500, "Callback processing failed"), FALSE)
               /\ cb' = Remove(cb, inv)
          ELSE /\ cb' = Replace(cb, inv,
                        CbInvocation("update", inv.dto, updateDataOf(inv.dto, now)))
               /\ reply' = NoReply
    /\ UNCHANGED <<circuitBreaker, now, stk, ledger, opened, retry, call>>

(***************************************************************************)
(* findUnique resolves or rejects.  A rejection is rethrown and leaves as  *)
(* a 500; no row gives a 404; otherwise the update is prepared and         *)
(* prisma update is awaited.                                               *)
(***************************************************************************)
findUnique(inv, dbFault) ==
    /\ BagIn(inv, cb) /\ inv.pc = "find"
    /\ IF dbFault
          THEN /\ reply' = Reply(Outcome(500, "Callback processing failed"), FALSE)
               /\ cb' = Remove(cb, inv)
       ELSE IF ledger[inv.dto.CheckoutRequestID] = NoRecord
          THEN /\ reply' = Reply(Outcome(404,
                                 "Transaction not found for CheckoutRequestID"), FALSE)
               /\ cb' = Remove(cb, inv)
       ELSE /\ cb' = Replace(cb, inv,
                        CbInvocation("update", inv.dto, updateDataOf(inv.dto, now)))
            /\ reply' = NoReply
    /\ UNCHANGED <<circuitBreaker, now, stk, ledger, opened, retry, call>>

(***************************************************************************)
(* prisma update resolves or rejects: P2025 (no row to update) gives a     *)
(* 404, any other rejection a 500; handleCallback then returns.            *)
(***************************************************************************)
\* an update that is tried again after a persistence fault
update_Retries(inv, dbFault) ==
    /\ BagIn(inv, cb) /\ inv.pc = "update"
    /\ LET id == inv.dto.CheckoutRequestID IN
       IF ledger[id] = NoRecord
          THEN /\ reply' = Reply(Outcome(404, "Transaction not found"), FALSE)
               /\ cb' = Remove(cb, inv)
               /\ UNCHANGED ledger
       ELSE IF dbFault
          THEN /\ reply' = NoReply
               /\ UNCHANGED <<cb, ledger>>
       ELSE /\ ledger' = [ledger EXCEPT ![id] = updated(@, inv.updateData)]
            /\ cb' = Remove(cb, inv)
            /\ reply' = Reply(Returned, FALSE)
    /\ UNCHANGED <<circuitBreaker, now, stk, opened, retry, call>>

update(inv, dbFault) ==
    /\ BagIn(inv, cb) /\ inv.pc = "update"
    /\ LET id == inv.dto.CheckoutRequestID IN
       IF ledger[id] = NoRecord
          THEN /\ reply' = Reply(Outcome(404, "Transaction not found"), FALSE)
               /\ UNCHANGED ledger
       ELSE IF dbFault
          THEN /\ reply' = Reply(Outcome(500, "Database update failed"), FALSE)
               /\ UNCHANGED ledger
       ELSE /\ ledger' = [ledger EXCEPT ![id] = updated(@, inv.updateData)]
            /\ reply' = Reply(Returned, FALSE)
    /\ cb' = Remove(cb, inv)
    /\ UNCHANGED <<circuitBreaker, now, stk, opened, retry, call>>

(***************************************************************************)
(* Spec: the initiations and the breaker, with the clock.                  *)
(***************************************************************************)
Next ==
    \/ \E dto \in StkPushDtos : initiateStkPush(dto)
    \/ \E inv \in BagToSet(stk) : getAccessTokenFails(inv)
    \/ \E inv \in BagToSet(stk) : getAccessTokenReturns(inv)
    \/ \E inv \in BagToSet(stk) : stkPushFails(inv)
    \/ \E inv \in BagToSet(stk), answer \in StkPushAnswers : stkPushAnswered(inv, answer)
    \/ \E inv \in BagToSet(stk), dbFault \in BOOLEAN : saveTransaction(inv, dbFault)
    \/ Tick

Spec == Init /\ [][Next]_vars

(***************************************************************************)
(* SpecLedger: the callbacks and the ledger.  The ledger starts as earlier *)
(* initiations left it: each checkout id has no row or the PENDING row     *)
(* that saveTransaction created for it.                                    *)
(***************************************************************************)
PendingRows(id) ==
    {newTransaction(dto, formatPhoneNumber(dto.phoneNumber), answer) :
        dto \in {d \in StkPushDtos : ~formatPhoneNumberThrows(d.phoneNumber)},
        answer \in {a \in StkPushAnswers :
                        a.ResponseCode = "0" /\ a.CheckoutRequestID = id}}

InitLedger ==
    /\ circuitBreaker = NewBreaker
    /\ now = TickMs
    /\ stk = EmptyBag
    /\ ledger \in {l \in [CheckoutIds -> UNION {PendingRows(id) \cup {NoRecord} :
                                                    id \in CheckoutIds}] :
                      \A id \in CheckoutIds : l[id] \in PendingRows(id) \cup {NoRecord}}
    /\ cb = EmptyBag
    /\ reply = NoReply
    /\ opened = NoTime
    /\ retry = NoRetry
    /\ call = NoCall

NextLedger ==
    \/ \E dto \in CallbackDtos : handleCallback(dto)
    \/ \E inv \in BagToSet(cb), dbFault \in BOOLEAN : findUnique(inv, dbFault)
    \/ \E inv \in BagToSet(cb), dbFault \in BOOLEAN : update(inv, dbFault)

SpecLedger == InitLedger /\ [][NextLedger]_vars

(***************************************************************************)
(* The lookup/write race: the table is shared with other clients of the    *)
(* database, and a row that findUnique found can be gone when update runs  *)
(* (prisma then rejects with code P2025, part_003:349-358).  One checkout  *)
(* id has its PENDING row at the start.                                    *)
(***************************************************************************)
RecordedId == "ws_CO_1"

InitRace ==
    /\ InitLedger
    /\ \A id \in CheckoutIds : ledger[id] # NoRecord <=> id = RecordedId

rowRemoved(id) ==
    /\ ledger[id] # NoRecord
    /\ ledger' = [ledger EXCEPT ![id] = NoRecord]
    /\ reply' = NoReply
    /\ UNCHANGED <<circuitBreaker, now, stk, cb, opened, retry, call>>

NextRace ==
    \/ \E dto \in CallbackDtos : handleCallback(dto)
    \/ \E inv \in BagToSet(cb), dbFault \in BOOLEAN : findUnique(inv, dbFault)
    \/ \E inv \in BagToSet(cb), dbFault \in BOOLEAN : update(inv, dbFault)
    \/ \E id \in CheckoutIds : rowRemoved(id)

SpecRace == InitRace /\ [][NextRace]_vars

(***************************************************************************)
(* MpesaUtils.retryOperation.  Its awaits are operation() and sleep(delay). *)
(* Math.random() is drawn from the multiples of 1 / RandomSteps in [0, 1),  *)
(* and a delay is kept as the fraction num / den, so that nothing is        *)
(* rounded.                                                                 *)
(***************************************************************************)
\* maxRetries is drawn from 0 .. MaxRetriesBound
MaxRetriesBound == 3
RandomSteps == 4
BaseDelays == {1000, 250}
OperationValues == {"a", "b"}

RECURSIVE Pow2(_)
\* Math.pow(2, n) for a natural n
Pow2(n) == IF n = 0 THEN 1 ELSE 2 * Pow2(n - 1)

\* baseDelay * 2^attempt * jitter
backoff_NextPower(baseDelay, attempt, r) ==
    [num |-> baseDelay * Pow2(attempt) * (RandomSteps + r), den |-> 2 * RandomSteps]

\* baseDelay * Math.pow(2, attempt - 1) * jitter, where
\* jitter = 0.5 + Math.random() * 0.5 and Math.random() = r / RandomSteps
backoff(baseDelay, attempt, r) ==
    [num |-> baseDelay * Pow2(attempt - 1) * (RandomSteps + r), den |-> 2 * RandomSteps]

Exhausted == Outcome(404, "Operation failed after maximum retries")

\* attempt++ and the test attempt <= maxRetries of the for loop: the next
\* invocation of operation, or the throw after the loop
loopStep(r) ==
    IF r.attempt + 1 <= r.maxRetries
        THEN [r EXCEPT !.attempt = @ + 1, !.pc = "operation"]
        ELSE [r EXCEPT !.attempt = @ + 1, !.pc = "thrown", !.outcome = Exhausted]

\* the call, up to the first await operation()
retryOperation(maxRetries, baseDelay) ==
    /\ retry.pc = "idle"
    /\ retry' = loopStep([retry EXCEPT !.maxRetries = maxRetries,
                                       !.baseDelay = baseDelay])
    /\ UNCHANGED <<serviceVars, call>>

\* operation() resolving on every attempt but the last taken as a failure
operationResolves_LastOnly(value) ==
    /\ retry.pc = "operation"
    /\ retry' = IF retry.attempt < retry.maxRetries
                    THEN loopStep([retry EXCEPT !.attempts = Append(@, value)])
                    ELSE [retry EXCEPT !.attempts = Append(@, value), !.pc = "returned",
                                       !.outcome = Returned, !.value = value]
    /\ UNCHANGED <<serviceVars, call>>

\* operation() resolves: return await operation()
operationResolves(value) ==
    /\ retry.pc = "operation"
    /\ retry' = [retry EXCEPT !.attempts = Append(@, value), !.pc = "returned",
                              !.outcome = Returned, !.value = value]
    /\ UNCHANGED <<serviceVars, call>>

\* the catch sleeping after the last attempt as well
operationRejects_SleepsAlways(random) ==
    /\ retry.pc = "operation"
    /\ retry' = [retry EXCEPT !.attempts = Append(@, "rejected"),
                              !.delays = Append(@, backoff(retry.baseDelay,
                                                           retry.attempt, random)),
                              !.pc = "sleep"]
    /\ UNCHANGED <<serviceVars, call>>

\* operation() rejects: the catch, up to await sleep(delay) or, on the last
\* attempt, through the end of the loop to the throw
operationRejects(random) ==
    /\ retry.pc = "operation"
    /\ retry' = IF retry.attempt < retry.maxRetries
                    THEN [retry EXCEPT !.attempts = Append(@, "rejected"),
                                       !.delays = Append(@, backoff(retry.baseDelay,
                                                                    retry.attempt, random)),
                                       !.pc = "sleep"]
                    ELSE loopStep([retry EXCEPT !.attempts = Append(@, "rejected")])
    /\ UNCHANGED <<serviceVars, call>>

\* sleep(delay) resolves: the loop goes on
sleepResolves ==
    /\ retry.pc = "sleep"
    /\ retry' = loopStep(retry)
    /\ UNCHANGED <<serviceVars, call>>

NextRetry ==
    \/ \E maxRetries \in 0 .. MaxRetriesBound, baseDelay \in BaseDelays :
          retryOperation(maxRetries, baseDelay)
    \/ \E value \in OperationValues : operationResolves(value)
    \/ \E random \in 0 .. RandomSteps - 1 : operationRejects(random)
    \/ sleepResolves

SpecRetry == Init /\ [][NextRetry]_vars

\* every operation() and every sleep() settles
SpecRetryLive == SpecRetry /\ WF_vars(NextRetry)

(***************************************************************************)
(* The pure utilities of MpesaUtils, applied to inputs drawn from bounded  *)
(* sets.  Each behaviour applies one of them once; call holds the          *)
(* application: the function, its argument, the clock reading and what it  *)
(* returned.                                                               *)
(***************************************************************************)
\* the forms a caller may write before the subscriber digits
PhonePrefixes ==
    {<<>>,
     <<"0">>,
     <<"2", "5", "4">>,
     <<"+", "2", "5", "4">>,
     <<"+">>,
     <<"2", "5", "5">>}

\* subscriber parts: nine digits, too few, too many, and with other characters
PhoneBodies ==
    {<<"7", "1", "2", "3", "4", "5", "6", "7", "8">>,
     <<"1", "1", "2", "3", "4", "5", "6", "7", "8">>,
     <<"0", "1", "2", "3", "4", "5", "6", "7", "8">>,
     <<"7", "1", "2", "3", "4", "5", "6", "7">>,
     <<"7", "1", "2", "3", "4", "5", "6", "7", "8", "9">>,
     <<"7", "1", "2", "-", "3", "4", "5", "-", "6", "7", "8">>,
     <<"7", "1", "2", "3", "4", "5", "6", "7", "a">>,
     <<>>}

PhoneNumbers == {prefix \o body : prefix \in PhonePrefixes, body \in PhoneBodies}

\* the six fields of a YYYYMMDDHHMMSS text, around the limits of each check
Years == {<<"2", "0", "1", "9">>,
          <<"2", "0", "2", "0">>,
          <<"2", "0", "3", "0">>,
          <<"2", "0", "3", "1">>}
Months == {<<"0", "0">>,
           <<"0", "1">>,
           <<"0", "2">>,
           <<"1", "2">>,
           <<"1", "3">>}
Days == {<<"0", "0">>,
         <<"0", "1">>,
         <<"3", "1">>,
         <<"3", "2">>}
Hours == {<<"0", "0">>,
          <<"2", "3">>,
          <<"2", "4">>}
Minutes == {<<"0", "0">>,
            <<"5", "9">>,
            <<"6", "0">>}
Seconds == {<<"0", "0">>,
            <<"5", "9">>,
            <<"6", "0">>,
            <<"5", "x">>}

DateTexts ==
    {y \o mo \o d \o h \o mi \o sec :
        y \in Years, mo \in Months, d \in Days, h \in Hours, mi \in Minutes,
        sec \in Seconds}

\* Unix timestamps and text that is neither form
OtherDateTexts ==
    {<<"1", "7", "1", "7", "2", "4", "3", "2", "0", "0">>,
     <<" ", "1", "7", "1", "7", "2", "4", "3", "2", "0", "0", " ">>,
     <<"1", "e", "1", "0", "0", "0", "0", "0", "0", "0">>,
     <<"1", "7", "1", "7", "2", "4", "3", "2", "a", "b">>,
     <<"2", "0", "2", "5", "0", "6", "0", "1", "1", "2", "0", "0">>,
     <<"b", "a", "d">>,
     <<>>,
     <<" ", "2", "0", "2", "5", "0", "6", "0", "1", "1", "2", "0", "0", "0", "0", " ">>}

DateStrings == DateTexts \cup OtherDateTexts

\* the readings of the clock when a utility runs
ClockReadings == {0, TickMs}

OtherName == <<"X">>

\* items of a CallbackMetadata.Item list: each known name with a value to
\* coerce, a name with surrounding blanks, an unknown name, and items
\* without a usable Name
MetadataItemValues ==
    {CallbackItem(Str(AmountName), Num(1)),
     CallbackItem(Str(AmountName), Str(<<"b", "a", "d">>)),
     CallbackItem(Str(<<" ">> \o AmountName \o <<" ">>), Str(<<"2">>)),
     CallbackItem(Str(ReceiptName), Str(<<" ">> \o SampleReceipt.s \o <<" ">>)),
     CallbackItem(Str(ReceiptName), Num(7)),
     CallbackItem(Str(BalanceName), Str(<<"1", "2">>)),
     CallbackItem(Str(DateName), SampleDate),
     CallbackItem(Str(DateName), Str(<<"b", "a", "d">>)),
     CallbackItem(Str(PhoneName), Str(<<" ">> \o ValidPhone)),
     CallbackItem(Str(OtherName), Str(<<" ", "v", " ">>)),
     CallbackItem(Undefined, Num(1)),
     CallbackItem(Str(<<>>), SampleReceipt)}

MaxItems == 2

ItemLists == UNION {[1..n -> MetadataItemValues] : n \in 0..MaxItems}

Applied(fn, input, t, result) == [fn |-> fn, input |-> input, t |-> t, result |-> result]

\* MpesaUtils.formatPhoneNumber(phoneNumber); a result of <<>> is the Error
\* it throws
applyFormatPhoneNumber(phoneNumber) ==
    /\ call = NoCall
    /\ call' = Applied("formatPhoneNumber", phoneNumber, 0,
                       formatPhoneNumber(phoneNumber))
    /\ UNCHANGED <<serviceVars, retry>>

\* MpesaUtils.parseTransactionDate(dateStr) when the clock reads t
applyParseTransactionDate(dateStr, t) ==
    /\ call = NoCall
    /\ call' = Applied("parseTransactionDate", dateStr, t,
                       parseTransactionDate(dateStr, t))
    /\ UNCHANGED <<serviceVars, retry>>

\* MpesaUtils.parseCallbackMetadata(items) when the clock reads t
applyParseCallbackMetadata(items, t) ==
    /\ call = NoCall
    /\ call' = Applied("parseCallbackMetadata", items, t,
                       parseCallbackMetadata(items, t))
    /\ UNCHANGED <<serviceVars, retry>>

NextUtils ==
    \/ \E phoneNumber \in PhoneNumbers : applyFormatPhoneNumber(phoneNumber)
    \/ \E dateStr \in DateStrings, t \in ClockReadings :
            applyParseTransactionDate(dateStr, t)
    \/ \E items \in ItemLists, t \in ClockReadings :
            applyParseCallbackMetadata(items, t)

SpecUtils == Init /\ [][NextUtils]_vars

(***************************************************************************)
(* Callbacks and status reads beside a breaker that has history: the       *)
(* breaker is as some earlier initiations left it, with nothing in flight, *)
(* and one checkout id has its PENDING row.                                *)
(***************************************************************************)
\* the breaker after n failures recorded at time 0
RECURSIVE FailuresAt(_)
FailuresAt(n) == IF n = 0 THEN NewBreaker ELSE recordFailure(FailuresAt(n - 1), 0)

BreakerSamples == {FailuresAt(n) : n \in {0, 1, maxFailures}}

StatusRead == Outcome(200, "status")

\* getCircuitBreakerStatus with a write to the counter it reads
getCircuitBreakerStatus_Counts ==
    /\ reply' = [outcome |-> StatusRead, probe |-> FALSE,
                 found |-> circuitBreaker.state, value |-> circuitBreaker]
    /\ circuitBreaker' = [circuitBreaker EXCEPT !.failures = 0]
    /\ UNCHANGED <<now, stk, ledger, cb, opened, retry, call>>

\* getCircuitBreakerStatus: a copy of the breaker's four fields
getCircuitBreakerStatus ==
    /\ reply' = [outcome |-> StatusRead, probe |-> FALSE,
                 found |-> circuitBreaker.state, value |-> circuitBreaker]
    /\ UNCHANGED <<circuitBreaker, now, stk, ledger, cb, opened, retry, call>>

InitStatus ==
    /\ circuitBreaker \in BreakerSamples
    /\ now = TickMs
    /\ stk = EmptyBag
    /\ ledger \in {l \in [CheckoutIds -> PendingRows(RecordedId) \cup {NoRecord}] :
                      \A id \in CheckoutIds :
                          IF id = RecordedId THEN l[id] \in PendingRows(id)
                          ELSE l[id] = NoRecord}
    /\ cb = EmptyBag
    /\ reply = NoReply
    /\ opened = IF circuitBreaker.state = "OPEN" THEN 0 ELSE NoTime
    /\ retry = NoRetry
    /\ call = NoCall

NextStatus ==
    \/ \E dto \in CallbackDtos : handleCallback(dto)
    \/ \E inv \in BagToSet(cb), dbFault \in BOOLEAN : findUnique(inv, dbFault)
    \/ \E inv \in BagToSet(cb), dbFault \in BOOLEAN : update(inv, dbFault)
    \/ getCircuitBreakerStatus

SpecStatus == InitStatus /\ [][NextStatus]_vars

(***************************************************************************)
(* Properties.                                                             *)
(***************************************************************************)
Terminal == {"SUCCESS", "FAILED", "CANCELLED", "TIMEOUT"}

\* the invocations of a bag that wait at pc
Waiting(bag, pc) == BagCardinality([inv \in {i \in BagToSet(bag) : i.pc = pc} |-> bag[inv]])

\* the invocation inv of cb took this step
CbStepped(inv) == BagIn(inv, cb) /\ CopiesIn(inv, cb') < CopiesIn(inv, cb)

\* this step is a call of initiateStkPush
Initiated == \E dto \in StkPushDtos : initiateStkPush(dto)

Rejected == Outcome(503, "M-Pesa service temporarily unavailable")

\* C1: once the status of a transaction is terminal (SUCCESS, FAILED, CANCELLED,
\* TIMEOUT) no step changes it again.
C1_TerminalNeverOverwritten ==
    [][\A id \in CheckoutIds :
          (ledger[id] # NoRecord /\ ledger[id].status \in Terminal)
              => ledger'[id].status = ledger[id].status]_vars

\* what a handleCallback that returns leaves of its callback in the row it wrote,
\* when the row was PENDING: the status by ResultCode and the callback's code
WritesOutcome(inv) ==
    LET id == inv.dto.CheckoutRequestID
        code == inv.dto.ResultCode
    IN  (/\ CbStepped(inv) /\ inv.pc = "update"
         /\ reply'.outcome = Returned
         /\ ledger[id] # NoRecord /\ ledger[id].status = "PENDING")
        => /\ code = 0 => ledger'[id].status = "SUCCESS"
           /\ code = 1032 => ledger'[id].status = "CANCELLED"
           /\ code = 1037 => ledger'[id].status = "TIMEOUT"
           /\ code \notin {0, 1032, 1037} => ledger'[id].status = "FAILED"
           /\ ledger'[id].resultCode = Num(code)

PendingWritten(inv) ==
    /\ CbStepped(inv) /\ inv.pc = "update"
    /\ reply'.outcome = Returned
    /\ ledger[inv.dto.CheckoutRequestID] # NoRecord
    /\ ledger[inv.dto.CheckoutRequestID].status = "PENDING"

\* C2 as stated: a callback for a PENDING transaction sets the status by its
\* ResultCode (0 SUCCESS, 1032 CANCELLED, 1037 TIMEOUT, else FAILED) and stores
\* the callback's resultCode and resultDesc.
C2_StoresCallbackResult ==
    [][\A inv \in BagToSet(cb) :
          /\ WritesOutcome(inv)
          /\ PendingWritten(inv)
                => ledger'[inv.dto.CheckoutRequestID].resultDesc = inv.dto.ResultDesc]_vars

\* C2 amended: the status is set by the ResultCode, the stored resultCode is the
\* callback's, and the stored resultDesc is the callback's ResultDesc, or nil
\* when that is the empty string.
C2_StoresCallbackResultOrNil ==
    [][\A inv \in BagToSet(cb) :
          /\ WritesOutcome(inv)
          /\ PendingWritten(inv)
                => ledger'[inv.dto.CheckoutRequestID].resultDesc =
                       IF inv.dto.ResultDesc = Str(<<>>) THEN Null
                       ELSE inv.dto.ResultDesc]_vars

C2_Witness ==
    /\ reply.outcome = Returned
    /\ \E id \in CheckoutIds :
          /\ ledger[id] # NoRecord
          /\ ledger[id].status = "FAILED"
          /\ ledger[id].resultCode = Num(1)
          /\ ledger[id].resultDesc = Null

\* C3: a lookup that finds no row for the CheckoutRequestID ends the invocation
\* with a 404 (not found) and leaves the ledger as it was.
C3_UnknownTransactionNoWrite ==
    [][\A inv \in BagToSet(cb) :
          (/\ CbStepped(inv) /\ inv.pc = "find"
           /\ ledger[inv.dto.CheckoutRequestID] = NoRecord
           /\ reply'.outcome # Outcome(500, "Callback processing failed"))
          => /\ reply'.outcome.status = 404
             /\ cb' = Remove(cb, inv)
             /\ ledger' = ledger]_vars

C3_Witness ==
    /\ reply.outcome = Outcome(404, "Transaction not found for CheckoutRequestID")
    /\ \E id \in CheckoutIds : ledger[id] = NoRecord
    /\ \E id \in CheckoutIds : ledger[id] # NoRecord

\* C4: a step that raises failures to maxFailures or more leaves the breaker
\* OPEN with nextAttemptTime = now + resetTimeout; one that raises it to less
\* leaves the breaker CLOSED.
C4_OpensAtMaxFailures ==
    [][circuitBreaker'.failures > circuitBreaker.failures =>
          IF circuitBreaker'.failures >= maxFailures
              THEN /\ circuitBreaker'.state = "OPEN"
                   /\ circuitBreaker'.nextAttemptTime = now + resetTimeout
              ELSE circuitBreaker'.state = "CLOSED"]_vars

C4_Witness ==
    /\ circuitBreaker.state = "OPEN"
    /\ circuitBreaker.failures = maxFailures
    /\ circuitBreaker.lastFailureTime = now
    /\ circuitBreaker.nextAttemptTime = now + resetTimeout
    /\ now > 0

\* C5: initiateStkPush called while the breaker is OPEN and now is before
\* nextAttemptTime throws 503 at once and starts no outbound call.
C5_OpenRejectsWithoutCall ==
    [][(/\ Initiated
        /\ circuitBreaker.state = "OPEN"
        /\ now < circuitBreaker.nextAttemptTime)
       => /\ reply'.outcome = Rejected
          /\ stk' = stk]_vars

C5_Witness ==
    /\ reply.outcome = Rejected
    /\ reply.found = "OPEN"
    /\ circuitBreaker.state = "OPEN"

\* C6: initiateStkPush called while the breaker is OPEN and now is at or after
\* nextAttemptTime moves the breaker to HALF_OPEN and goes on to the gateway
\* (it awaits the credential fetch).
C6_OpenElapsedProbes ==
    [][(/\ Initiated
        /\ circuitBreaker.state = "OPEN"
        /\ now >= circuitBreaker.nextAttemptTime)
       => /\ circuitBreaker'.state = "HALF_OPEN"
          /\ reply' = NoReply
          /\ Waiting(stk', "token") = Waiting(stk, "token") + 1]_vars

C6_Witness ==
    /\ circuitBreaker.state = "HALF_OPEN"
    /\ now >= circuitBreaker.nextAttemptTime
    /\ \E inv \in BagToSet(stk) : inv.probe /\ inv.pc = "token"

\* C7: once the breaker went from CLOSED to OPEN at time opened, and only
\* rejected initiations were recorded since, an initiation at or after
\* opened + resetTimeout is admitted.
C7_AdmittedAfterResetTimeout ==
    [][(/\ Initiated
        /\ circuitBreaker.state = "OPEN"
        /\ opened # NoTime
        /\ now >= opened + resetTimeout)
       => /\ reply' = NoReply
          /\ Waiting(stk', "token") = Waiting(stk, "token") + 1]_vars

\* C8: while the breaker is HALF_OPEN and the probe is in flight, a call of
\* initiateStkPush does not reach the gateway.
C8_OneProbeInHalfOpen ==
    [][(/\ Initiated
        /\ circuitBreaker.state = "HALF_OPEN"
        /\ \E inv \in BagToSet(stk) : inv.probe /\ inv.pc \in {"token", "post"})
       => stk' = stk]_vars

\* C9: a success recorded while the breaker is HALF_OPEN (the gateway accepted
\* the submission, the invocation goes on to saveTransaction) leaves the breaker
\* CLOSED with failures = 0.
C9_HalfOpenSuccessCloses ==
    [][(/\ Waiting(stk', "save") > Waiting(stk, "save")
        /\ circuitBreaker.state = "HALF_OPEN")
       => /\ circuitBreaker'.state = "CLOSED"
          /\ circuitBreaker'.failures = 0]_vars

C9_Witness ==
    /\ circuitBreaker.state = "CLOSED"
    /\ circuitBreaker.failures = 0
    /\ circuitBreaker.lastFailureTime # NoTime
    /\ \E inv \in BagToSet(stk) : inv.probe /\ inv.pc = "save"

\* C10: an invocation that fails while the breaker is HALF_OPEN raises failures
\* and leaves the breaker OPEN with nextAttemptTime = now + resetTimeout.
C10_HalfOpenFailureReopens ==
    [][(/\ BagCardinality(stk') < BagCardinality(stk)
        /\ reply'.outcome.status >= 400
        /\ circuitBreaker.state = "HALF_OPEN")
       => /\ circuitBreaker'.failures > circuitBreaker.failures
          /\ circuitBreaker'.state = "OPEN"
          /\ circuitBreaker'.nextAttemptTime = now + resetTimeout]_vars

C10_Witness ==
    /\ reply.probe
    /\ reply.found = "HALF_OPEN"
    /\ reply.outcome.status >= 400
    /\ circuitBreaker.state = "OPEN"
    /\ circuitBreaker.nextAttemptTime = now + resetTimeout
    /\ now >= resetTimeout

\* this step ends an invocation of initiateStkPush with a throw
InitiationFailed ==
    /\ reply'.outcome.status >= 400
    /\ \/ BagCardinality(stk') < BagCardinality(stk)
       \/ Initiated /\ stk' = stk

\* this step records a success: the gateway accepted the submission
SuccessRecorded == Waiting(stk', "save") > Waiting(stk, "save")

\* C11: a success recorded while the breaker is CLOSED leaves failures and the
\* state as they were, and failures goes down only by a success recorded in
\* HALF_OPEN.
C11_ClosedSuccessKeepsCount ==
    [][/\ (SuccessRecorded /\ circuitBreaker.state = "CLOSED")
              => circuitBreaker' = circuitBreaker
       /\ circuitBreaker'.failures < circuitBreaker.failures
              => (SuccessRecorded /\ circuitBreaker.state = "HALF_OPEN")]_vars

C11_Witness ==
    /\ circuitBreaker.state = "CLOSED"
    /\ circuitBreaker.failures > 0
    /\ stk # EmptyBag
    /\ \A inv \in BagToSet(stk) : inv.pc = "save" /\ ~inv.probe
    /\ BagCardinality(stk) = MaxInFlight

\* C12: every call of initiateStkPush that fails raises failures by exactly
\* one.
C12_OneFailurePerFailedCall ==
    [][InitiationFailed
          => circuitBreaker'.failures = circuitBreaker.failures + 1]_vars

\* C13: an initiation that fails because formatPhoneNumber throws leaves the
\* breaker as it was.
C13_PhoneFaultKeepsBreaker ==
    [][\A inv \in BagToSet(stk) :
          (/\ inv.pc = "token"
           /\ formatPhoneNumberThrows(inv.dto.phoneNumber)
           /\ getAccessTokenReturns(inv))
          => circuitBreaker' = circuitBreaker]_vars

\* C14: an initiation that fails from a gateway-side fault (the breaker is
\* OPEN, the credential fetch fails, the submission fails in transport) is
\* recorded against the breaker and gives its caller a 503.
C14_GatewayFaultUnavailable ==
    [][(\/ Initiated /\ breakerRejects(circuitBreaker, now)
        \/ \E inv \in BagToSet(stk) : getAccessTokenFails(inv) \/ stkPushFails(inv))
       => /\ circuitBreaker'.failures > circuitBreaker.failures
          /\ reply'.outcome.status = 503]_vars

\* C15: a failing initiation that ends while others are in flight adds at
\* least one to the failures it finds, and only a success recorded in HALF_OPEN
\* takes failures down: concurrent failures are all counted.
C15_ConcurrentFailuresCounted ==
    [][/\ (InitiationFailed /\ BagCardinality(stk) >= 2)
              => circuitBreaker'.failures >= circuitBreaker.failures + 1
       /\ (circuitBreaker'.failures < circuitBreaker.failures /\ BagCardinality(stk) >= 2)
              => SuccessRecorded]_vars

C15_Witness ==
    /\ reply.outcome.status >= 400
    /\ reply.found = "CLOSED"
    /\ stk # EmptyBag
    /\ circuitBreaker.failures >= 2
    /\ circuitBreaker.lastFailureTime = now

\* C16: a transport failure of the credential fetch or of the payment
\* submission is retried within the initiation: the failure of the first
\* attempt (each await of part_003:56 and 118 is an invocation's first and only
\* attempt) neither ends the invocation nor records a breaker failure.
C16_TransportFailureRetried ==
    [][\A inv \in BagToSet(stk) :
          (getAccessTokenFails(inv) \/ stkPushFails(inv))
              => /\ BagCardinality(stk') = BagCardinality(stk)
                 /\ circuitBreaker' = circuitBreaker]_vars

\* C17: when retryOperation returns, operation was invoked exactly k times
\* with 1 <= k <= maxRetries, its first k - 1 invocations rejected, the k-th
\* resolved, and the value returned is the k-th's.
C17_ReturnsFirstSuccess ==
    retry.pc = "returned" =>
        LET k == Len(retry.attempts) IN
        /\ 1 <= k /\ k <= retry.maxRetries
        /\ retry.attempt = k
        /\ \A i \in 1 .. k - 1 : retry.attempts[i] = "rejected"
        /\ retry.attempts[k] \in OperationValues
        /\ retry.value = retry.attempts[k]
        /\ retry.outcome = Returned
        /\ Len(retry.delays) = k - 1

C17_Witness ==
    /\ retry.pc = "returned"
    /\ retry.maxRetries = MaxRetriesBound
    /\ Len(retry.attempts) = MaxRetriesBound
    /\ retry.value = "b"

\* retryOperation has thrown after the loop
RetryExhausted ==
    /\ Len(retry.attempts) = retry.maxRetries
    /\ \A i \in 1 .. retry.maxRetries : retry.attempts[i] = "rejected"
    /\ retry.maxRetries >= 1 => Len(retry.delays) = retry.maxRetries - 1
    /\ retry.maxRetries = 0 => retry.delays = <<>>
    /\ retry.outcome = Exhausted

\* C18: when operation rejects on every attempt, retryOperation invokes it
\* exactly maxRetries times, sleeps maxRetries - 1 times (never after the last
\* attempt) and throws the exception of exhaustion; and every call of
\* retryOperation ends, whatever maxRetries is.
C18_ExhaustsAfterMaxAttempts ==
    /\ [](retry.pc = "thrown" => RetryExhausted)
    /\ [](retry.pc = "sleep" => Len(retry.attempts) < retry.maxRetries)
    /\ <>(retry.pc \in {"returned", "thrown"})

C18_Witness ==
    /\ retry.pc = "thrown"
    /\ retry.maxRetries = MaxRetriesBound
    /\ Len(retry.attempts) = MaxRetriesBound
    /\ Len(retry.delays) = MaxRetriesBound - 1

\* C19: the i-th delay slept, after the failed attempt i < maxRetries, is at
\* least half of baseDelay * 2^(i-1) and less than baseDelay * 2^(i-1).
C19_DelayWithinJitter ==
    /\ Len(retry.delays) < retry.maxRetries \/ retry.delays = <<>>
    /\ \A i \in 1 .. Len(retry.delays) :
          LET delay == retry.delays[i]
              expected == retry.baseDelay * Pow2(i - 1)
          IN  /\ 2 * delay.num >= expected * delay.den
              /\ delay.num < expected * delay.den

C19_Witness ==
    /\ Len(retry.delays) = 2
    /\ retry.baseDelay = 1000
    /\ 2 * retry.delays[1].num = 1000 * retry.delays[1].den
    /\ 2 * retry.delays[2].num > 2000 * retry.delays[2].den

\* C20: after handleCallback has processed a callback with ResultCode 0 for an
\* existing transaction, the row is SUCCESS and both its receipt number and its
\* transaction date hold a value, whatever the metadata of the callback.
C20_SuccessRecordComplete ==
    [][\A inv \in BagToSet(cb) :
          (/\ CbStepped(inv) /\ inv.pc = "update"
           /\ reply'.outcome = Returned
           /\ inv.dto.ResultCode = 0)
          => LET row == ledger'[inv.dto.CheckoutRequestID] IN
             /\ row.status = "SUCCESS"
             /\ row.mpesaReceiptNumber # Null
             /\ row.transactionDate # Null]_vars

\* the callback carries an Item list
HasItemList(dto) == dto.CallbackMetadata.present /\ dto.CallbackMetadata.hasItem

\* C21: for a callback with ResultCode 0 and no Item list (CallbackMetadata
\* absent, or present without Item), a handleCallback that returns has stored
\* the current time as the transaction date and "FALLBACK_" followed by the
\* current time in milliseconds as the receipt number.
C21_NoMetadataFallback ==
    [][\A inv \in BagToSet(cb) :
          (/\ CbStepped(inv) /\ inv.pc = "update"
           /\ reply'.outcome = Returned
           /\ inv.dto.ResultCode = 0
           /\ ~HasItemList(inv.dto))
          => LET row == ledger'[inv.dto.CheckoutRequestID] IN
             /\ row.status = "SUCCESS"
             /\ row.transactionDate = Val("Date", now, <<"c", "l", "o", "c", "k">>)
             /\ row.mpesaReceiptNumber.t = "string"
             /\ row.mpesaReceiptNumber.s =
                    <<"F", "A", "L", "L", "B", "A", "C", "K", "_">>
                        \o DecimalDigits(now)]_vars

C21_Witness ==
    /\ reply.outcome = Returned
    /\ now > 0
    /\ \E id \in CheckoutIds :
          /\ ledger[id] # NoRecord
          /\ ledger[id].status = "SUCCESS"
          /\ ledger[id].transactionDate = ClockDate(now)
          /\ ledger[id].mpesaReceiptNumber =
                 Str(<<"F", "A", "L", "L", "B", "A", "C", "K", "_",
                       "3", "0", "0", "0", "0">>)

\* the status that the reconciliation computes from a ResultCode
ComputedStatus(code) ==
    CASE code = 0 -> "SUCCESS"
      [] code = 1032 -> "CANCELLED"
      [] code = 1037 -> "TIMEOUT"
      [] OTHER -> "FAILED"

\* C22: whatever the current status of the row (PENDING or terminal), after a
\* handleCallback that returns the status is the one computed from the
\* callback's ResultCode: a second callback overwrites a terminal status.
C22_WriteIgnoresCurrentStatus ==
    [][\A inv \in BagToSet(cb) :
          (/\ CbStepped(inv) /\ inv.pc = "update"
           /\ reply'.outcome = Returned)
          => ledger'[inv.dto.CheckoutRequestID].status =
                 ComputedStatus(inv.dto.ResultCode)]_vars

C22_Witness ==
    /\ reply.outcome = Returned
    /\ \E id \in CheckoutIds :
          /\ ledger[id] # NoRecord
          /\ ledger[id].status = "CANCELLED"
          /\ ledger[id].resultCode = Num(1032)
          /\ ledger[id].mpesaReceiptNumber = SampleReceipt

\* C23: the write of handleCallback ends the invocation whatever it gives (it
\* is never tried again); when the row is gone at the write the caller gets
\* 404 "Transaction not found", at any other persistence fault 500 "Database
\* update failed", and in both cases the ledger is left as it was.
C23_WriteFaultsEndInvocation ==
    [][\A inv \in BagToSet(cb) :
          (\E dbFault \in BOOLEAN : update(inv, dbFault))
          => /\ cb' = Remove(cb, inv)
             /\ reply'.outcome \in {Returned, Outcome(404, "Transaction not found"),
                                    Outcome(500, "Database update failed")}
             /\ ledger[inv.dto.CheckoutRequestID] = NoRecord
                    => reply'.outcome = Outcome(404, "Transaction not found")
             /\ reply'.outcome # Returned => ledger' = ledger]_vars

C23_Witness ==
    /\ reply.outcome = Outcome(404, "Transaction not found")
    /\ cb = EmptyBag

\* C24: handleCallback of a payload without Body or without Body.stkCallback
\* throws 400 at once: no lookup is started and the ledger is as it was.
C24_MalformedCallbackRejected ==
    [][\A dto \in CallbackDtos :
          (dto.shape # "stkCallback" /\ handleCallback(dto))
          => /\ reply'.outcome.status = 400
             /\ cb' = cb
             /\ ledger' = ledger]_vars

C24_Witness ==
    /\ reply.outcome = Outcome(400, "Invalid callback format: missing stkCallback")
    /\ \E id \in CheckoutIds : ledger[id] # NoRecord /\ ledger[id].status = "PENDING"

\* the row of checkoutRequestID c is there and PENDING
HoldsPending(l, c) ==
    /\ l[c] # NoRecord
    /\ l[c].status = "PENDING"
    /\ l[c].checkoutRequestID = c

C26_SaveFailureSwallowed ==
    [][\A inv \in BagToSet(stk) :
          saveTransaction(inv, TRUE)
          => /\ reply'.outcome = Returned
             /\ reply'.value = inv.answer
             /\ circuitBreaker' = circuitBreaker
             /\ ledger' = ledger
             /\ stk' = Remove(stk, inv)]_vars

C26_Witness ==
    /\ reply.outcome = Returned
    /\ reply.value \in StkPushAnswers
    /\ ledger[reply.value.CheckoutRequestID] = NoRecord
    /\ circuitBreaker.failures = 0

\* the positions of the items that have a Name
NamedAt(items) == {i \in 1..Len(items) : Truthy(items[i].Name)}

\* the key an item is stored under
KeyOf(item) == trim(StringOf(item.Name))

\* the value the result holds for an item: coerced for the five known names,
\* verbatim for any other
Coerced(name, value, t) ==
    CASE name \in {AmountName, BalanceName} -> NumberOf(value)
      [] name \in {ReceiptName, PhoneName} -> Str(trim(StringOf(value)))
      [] name = DateName -> parseTransactionDate(trim(StringOf(value)), t)
      [] OTHER -> value

\* C27: parseCallbackMetadata never drops a well-formed item because of a bad
\* one: for every item list the result has exactly the names of the items
\* that have a Name, each mapped to the value of the last item of that name
\* (coerced for Amount, MpesaReceiptNumber, Balance, TransactionDate and
\* PhoneNumber, verbatim otherwise); items without a Name leave no entry and
\* do not disturb the others.
C27_EveryNamedItemParsed ==
    call.fn = "parseCallbackMetadata" =>
        LET items == call.input
            named == NamedAt(items)
        IN  /\ DOMAIN call.result = {KeyOf(items[i]) : i \in named}
            /\ \A i \in named :
                    (\A j \in named : j > i => KeyOf(items[j]) # KeyOf(items[i]))
                        => call.result[KeyOf(items[i])]
                              = Coerced(KeyOf(items[i]), items[i].Value, call.t)

\* a list whose first item has no Name and whose second is a receipt with
\* blanks around it: the result holds the trimmed receipt
C27_Witness ==
    /\ call.fn = "parseCallbackMetadata"
    /\ Len(call.input) = 2
    /\ call.input[1] = CallbackItem(Undefined, Num(1))
    /\ call.input[2].Name = Str(ReceiptName)
    /\ call.input[2].Value = Str(<<" ">> \o SampleReceipt.s \o <<" ">>)
    /\ DOMAIN call.result = {ReceiptName}
    /\ call.result[ReceiptName] = SampleReceipt

\* a two-digit or four-digit field that is a number within lo..hi
FieldInRange(field, lo, hi) ==
    AllDigits(field) /\ DecimalValue(field) >= lo /\ DecimalValue(field) <= hi

\* a 14-character text whose six fields are all in range
FieldsInRange(c) ==
    /\ Len(c) = 14
    /\ FieldInRange(slice(c, 0, 4), 2020, 2030)
    /\ FieldInRange(slice(c, 4, 6), 1, 12)
    /\ FieldInRange(slice(c, 6, 8), 1, 31)
    /\ FieldInRange(slice(c, 8, 10), 0, 23)
    /\ FieldInRange(slice(c, 10, 12), 0, 59)
    /\ FieldInRange(slice(c, 12, 14), 0, 59)

\* a 10-character text that Number reads as a number
NumericEpoch(c) == Len(c) = 10 /\ NumberOf(Str(c)).t # "NaN"

AcceptedPrefixes ==
    {<<>>, <<"0">>, <<"+", "2", "5", "4">>, <<"2", "5", "4">>}

\* exactly one of the four accepted forms: a prefix and nine digits
AcceptedForm(phoneNumber) ==
    \E prefix \in AcceptedPrefixes :
        /\ Len(phoneNumber) = Len(prefix) + 9
        /\ startsWith(phoneNumber, prefix)
        /\ AllDigits(SubSeq(phoneNumber, Len(prefix) + 1, Len(phoneNumber)))

\* C29: formatPhoneNumber maps each accepted form (a leading 0 and nine
\* digits, nine bare digits, +254 and nine digits, 254 and nine digits) to
\* 254 followed by its nine subscriber digits.
C29_AcceptedFormsCanonical ==
    (call.fn = "formatPhoneNumber" /\ AcceptedForm(call.input)) =>
        call.result = <<"2", "5", "4">>
                        \o SubSeq(call.input, Len(call.input) - 8, Len(call.input))

\* +254712345678 was formatted, and gave 254712345678
C29_Witness ==
    /\ call.fn = "formatPhoneNumber"
    /\ call.input = <<"+", "2", "5", "4">> \o Tail(ValidPhone)
    /\ call.result = <<"2", "5", "4">> \o Tail(ValidPhone)

\* C30: formatPhoneNumber throws for every input that is not exactly one of
\* the four accepted forms, inputs with characters other than digits and a
\* leading + among them.
C30_OtherInputsRejected ==
    (call.fn = "formatPhoneNumber" /\ ~AcceptedForm(call.input)) =>
        formatPhoneNumberThrows(call.input) /\ call.result = <<>>

\* C31: in every reachable state the breaker's state and counter agree:
\* CLOSED implies failures < maxFailures, and OPEN or HALF_OPEN implies
\* failures >= maxFailures with nextAttemptTime set.
C31_StateAgreesWithCounter ==
    /\ circuitBreaker.state = "CLOSED" => circuitBreaker.failures < maxFailures
    /\ circuitBreaker.state \in {"OPEN", "HALF_OPEN"} =>
            /\ circuitBreaker.failures >= maxFailures
            /\ circuitBreaker.nextAttemptTime # NoTime

\* a probe was admitted after the breaker had opened and failed again: the
\* breaker is HALF_OPEN with more than maxFailures failures
C31_Witness ==
    /\ circuitBreaker.state = "HALF_OPEN"
    /\ circuitBreaker.failures > maxFailures
    /\ circuitBreaker.nextAttemptTime # NoTime

\* the answers of the gateway that carry a response code other than "0"
RejectingAnswers == {answer \in StkPushAnswers : answer.ResponseCode # "0"}

\* C32: an initiation that the gateway answers with a response code other
\* than "0" fails with the gateway's description and is not counted as a
\* breaker failure: failures and the breaker state are unchanged.
C32_RejectionKeepsBreaker ==
    [][\A inv \in BagToSet(stk), answer \in RejectingAnswers :
          stkPushAnswered(inv, answer)
          => /\ reply'.outcome.status = 400
             /\ answer.ResponseDescription # ""
                    => reply'.outcome.message = answer.ResponseDescription
             /\ circuitBreaker'.failures = circuitBreaker.failures
             /\ circuitBreaker'.state = circuitBreaker.state]_vars

\* an initiation that has not yet recorded its success or failure
Unrecorded == {inv \in BagToSet(stk) : inv.pc \in {"token", "post"}}

\* C33: the breaker does not stay HALF_OPEN once its probe has completed:
\* while it is HALF_OPEN some initiation has still to record its success or
\* failure, so whenever no initiation is in flight the state is CLOSED or
\* OPEN.
C33_HalfOpenHasProbeInFlight ==
    /\ circuitBreaker.state = "HALF_OPEN" => Unrecorded # {}
    /\ stk = EmptyBag => circuitBreaker.state \in {"CLOSED", "OPEN"}

\* the probe admitted from OPEN has returned, nothing is in flight and the
\* breaker is CLOSED again
C33_Witness ==
    /\ stk = EmptyBag
    /\ reply.probe /\ reply.outcome = Returned
    /\ circuitBreaker.state = "CLOSED"
    /\ circuitBreaker.nextAttemptTime # NoTime

\* this step belongs to an invocation of handleCallback
CallbackStep ==
    \/ \E dto \in CallbackDtos : handleCallback(dto)
    \/ \E inv \in BagToSet(cb), dbFault \in BOOLEAN :
            findUnique(inv, dbFault) \/ update(inv, dbFault)

\* C34: callback processing and the breaker are independent: no step of
\* handleCallback, successful or failing (a malformed callback included),
\* changes the breaker's state, failures, lastFailureTime or
\* nextAttemptTime, and getCircuitBreakerStatus returns the four fields and
\* changes nothing either.
C34_CallbacksLeaveBreaker ==
    [][/\ CallbackStep => circuitBreaker' = circuitBreaker
       /\ getCircuitBreakerStatus
            => /\ circuitBreaker' = circuitBreaker
               /\ reply'.value = circuitBreaker
               /\ ledger' = ledger]_vars

\* beside an OPEN breaker a callback has resolved the recorded transaction
\* and the status was then read: the breaker is as it was
C34_Witness ==
    /\ circuitBreaker = FailuresAt(maxFailures)
    /\ circuitBreaker.state = "OPEN"
    /\ ledger[RecordedId].status = "SUCCESS"
    /\ cb = EmptyBag
    /\ reply.outcome = StatusRead
    /\ reply.value = circuitBreaker

\* the identity and request attributes of a row
RequestAttributes(record) ==
    <<record.merchantRequestID, record.checkoutRequestID, record.responseCode,
      record.amount, record.phoneNumber, record.accountReference,
      record.transactionDesc>>

\* C35: handleCallback only ever writes a terminal status and only the
\* outcome fields: no step of a callback deletes a transaction or creates
\* one, a step that changes a row leaves it with a terminal status, no row
\* whose status is terminal returns to PENDING, and the identity and request
\* attributes of every row stay as created.
C35_OnlyOutcomeWritten ==
    [][\A id \in CheckoutIds :
          /\ (ledger[id] = NoRecord) <=> (ledger'[id] = NoRecord)
          /\ ledger[id] # NoRecord =>
                /\ RequestAttributes(ledger'[id]) = RequestAttributes(ledger[id])
                /\ ledger'[id] # ledger[id] => ledger'[id].status \in Terminal
                /\ ledger[id].status \in Terminal => ledger'[id].status \in Terminal]_vars

\* a callback with result code 1 has marked a transaction FAILED, and the row
\* still has the attributes it was created with
C35_Witness ==
    \E id \in CheckoutIds :
        /\ ledger[id] # NoRecord
        /\ ledger[id].status = "FAILED"
        /\ ledger[id].resultCode = Num(1)
        /\ \E created \in PendingRows(id) :
                RequestAttributes(ledger[id]) = RequestAttributes(created)

\* C36: receipt number and transaction timestamp belong to successful
\* payments only: in every reachable ledger state a transaction whose status
\* is PENDING, FAILED, CANCELLED or TIMEOUT has neither a receipt number nor
\* a transaction timestamp.
C36_ReceiptOnlyOnSuccess ==
    \A id \in CheckoutIds :
        (ledger[id] # NoRecord /\ ledger[id].status # "SUCCESS") =>
            /\ ledger[id].mpesaReceiptNumber = Null
            /\ ledger[id].transactionDate = Null

\* an invocation that the gateway answered with response code "0" and that
\* waits for the write of the row of id
Accepting(id) ==
    \E inv \in BagToSet(stk) :
        /\ inv.pc = "save"
        /\ inv.answer.ResponseCode = "0"
        /\ inv.answer.CheckoutRequestID = id
        /\ saveTransaction(inv, FALSE)

\* C37: a failed initiation never creates a transaction: a step that ends
\* an invocation of initiateStkPush with an error (breaker open, credential
\* failure, invalid phone number, transport error, gateway rejection) leaves
\* the ledger unchanged, and the ledger gains a record only in the write of
\* an invocation whose submission the gateway answered with code "0".
C37_FailedInitiationWritesNothing ==
    [][/\ InitiationFailed => ledger' = ledger
       /\ \A id \in CheckoutIds :
            ledger'[id] # ledger[id] => (ledger[id] = NoRecord /\ Accepting(id))]_vars

\* a gateway rejection has just failed an initiation while the ledger holds
\* only the row of an earlier accepted one
C37_Witness ==
    /\ reply.outcome = Outcome(400, "Invalid Amount")
    /\ ledger["ws_CO_1"] # NoRecord
    /\ ledger["ws_CO_2"] = NoRecord
    /\ stk = EmptyBag

====
